---- MODULE Spec2Model ----
(***************************************************************************)
(* Host side of the USB CDC link to the PicoCell MCU bridge                *)
(* (libloragw/src/loragw_com_linux.c): command framing (SendCmd_linux),    *)
(* answer synchronisation and payload read (ReceiveAns_linux), the public  *)
(* operations open / close / w / r / wb / rb and the mutex                 *)
(* mx_usbbridgesync that serialises them.                                  *)
(*                                                                         *)
(* Each caller (thread) advances through the positions of the C code:      *)
(*   idle -> lock -> [chunk ->] send -> sent -> hdr -> pay -> ... -> ret    *)
(*   -> idle                                                               *)
(* One step is one system call of the code together with the purely local  *)
(* computation that follows it.  What write() and read() return is chosen  *)
(* by the environment (the tty and the MCU behind it).                     *)
(***************************************************************************)
EXTENDS Integers, Sequences, FiniteSets, TLC

(***************************************************************************)
(* Bounds of the model.                                                    *)
(***************************************************************************)
\* number of threads that share the link
NCallers == 2
\* per-chunk payload capacities (loragw_com.h: ATOMICTX, ATOMICRX), scaled
\* down so that bursts of one, two, three and four chunks stay small
ATOMICTX == 2
ATOMICRX == 2

Callers == 1..NCallers

(***************************************************************************)
(* Constants of loragw_com.h, which the file includes.                     *)
(***************************************************************************)
CMD_HEADER_TX_SIZE == 4
CMD_HEADER_RX_SIZE == 3
OK == 1
KO == 0
ACK_OK == 1
ACK_KO == 0
LGW_COM_SUCCESS == "LGW_COM_SUCCESS"
LGW_COM_ERROR == "LGW_COM_ERROR"

\* the retry limit of the header loop and the USB packet size
HEADER_RETRY_LIMIT == 15
USB_PACKET_SIZE == 64
\* payload capacity of bufferrx and of AnsSettings_t.Rxbuf
CMD_DATA_RX_SIZE == 1728
\* the firmware version sent by the handshake (loragw_mcu.h), 0x01020304
STM32FWVERSION == 16909060

(***************************************************************************)
(* Command letters (ASCII).                                                *)
(***************************************************************************)
CMD_r == 114
CMD_s == 115
CMD_t == 116
CMD_u == 117
CMD_p == 112
CMD_e == 101
CMD_w == 119
CMD_x == 120
CMD_y == 121
CMD_z == 122
CMD_a == 97
CMD_l == 108

\* the letters 'b' 'c' 'd' 'f' 'h' 'q' 'i' 'j' 'm' 'n' of the switch
OtherCmds == {98, 99, 100, 102, 104, 113, 105, 106, 109, 110}

ValidCmds == {CMD_r, CMD_s, CMD_t, CMD_u, CMD_p, CMD_e, CMD_w, CMD_x, CMD_y,
              CMD_z, CMD_a, CMD_l} \cup OtherCmds

\* a check that takes any byte for a command letter
checkcmd_linux_all(cmd) == 0

checkcmd_linux(cmd) == IF cmd \in ValidCmds THEN 0 ELSE OK

(***************************************************************************)
(* Byte arithmetic.                                                        *)
(***************************************************************************)
U8(x) == x % 256
U16(x) == x % 65536
Shr8(x) == x \div 256
Shl8(x) == x * 256

Min(a, b) == IF a < b THEN a ELSE b

\* the first n elements of s / s without its first n elements
Take(s, n) == SubSeq(s, 1, Min(n, Len(s)))
Drop(s, n) == SubSeq(s, n + 1, Len(s))

RECURSIVE Flatten(_)
Flatten(ss) == IF ss = << >> THEN << >> ELSE Head(ss) \o Flatten(Tail(ss))

(***************************************************************************)
(* An array of the C code whose leading elements have been stored and      *)
(* whose remaining elements are still uninitialised: the stored bytes and  *)
(* the byte value the uninitialised memory happens to hold.                *)
(***************************************************************************)
ArrAt(arr, i) == IF i < Len(arr.bytes) THEN arr.bytes[i + 1] ELSE arr.junk
\* store the sequence s at indexes 0 .. Len(s)-1
ArrStore(arr, s) == [arr EXCEPT !.bytes = s \o Drop(arr.bytes, Len(s))]
\* elements 0 .. n-1
ArrRead(arr, n) == [i \in 1..n |-> ArrAt(arr, i - 1)]

VARIABLES
    lock,        \* mx_usbbridgesync: 0 when free, else the caller holding it
    com_target,  \* the handle published through *com_target_ptr
    fdOpen,      \* whether the tty endpoint of the handle is open
    pc,          \* position of each caller in the code
    call,        \* the operation each caller runs, with its arguments
    data,        \* each caller's buffer (the data argument)
    retval,      \* the operation about to return: its value, its unlock
    chunk_size,  \* locals of the burst functions
    cptalc,
    mystruct,    \* CmdSettings_t mystruct
    mystrctAns,  \* AnsSettings_t mystrctAns
    cpttimer,    \* locals of ReceiveAns_linux
    bufferrx,
    site,        \* which SendCmd/ReceiveAns call site of the operation runs
    sendres,     \* what write() returned in SendCmd_linux
    sent,        \* history: the frames handed to write() by the operation
    got,         \* history: what the reads of the operation returned
    mon,         \* history: who is using the wire
    stream       \* the bytes the tty holds for read(), when they are fixed

vars == <<lock, com_target, fdOpen, pc, call, data, retval, chunk_size, cptalc,
          mystruct, mystrctAns, cpttimer, bufferrx, site, sendres, sent, got,
          mon, stream>>

NoCmd == [Cmd |-> 0, LenMsb |-> 0, Len |-> 0, Address |-> 0, Value |-> << >>]
NoAns == [Cmd |-> 0, LenMsb |-> 0, Len |-> 0,
          Rxbuf |-> [bytes |-> << >>, junk |-> 0]]
\* prior: what *com_target_ptr held when lgw_com_open_linux was entered
NoCall == [op |-> "none", address |-> 0, size |-> 0, prior |-> "none"]
NoSend == [called |-> FALSE, lencheck |-> 0]
NoRet == [value |-> "none", unlock |-> FALSE]
\* hreads: header reads of the exchange under way; last: whether the last
\* header read returned part of a header, and the first byte of bufferrx
\* when ReceiveAns_linux gave up; hdr: the header accepted;
\* want, lencheck: the byte count asked of the payload read and what read()
\* returned; read: the bytes it consumed from the stream; payloads: the
\* payload bytes of the answers a read burst has received so far
NoRead == [partial |-> FALSE, first |-> 0]
NoGot == [hreads |-> 0, last |-> NoRead, hdr |-> << >>, want |-> 0,
          lencheck |-> 0, read |-> << >>, payloads |-> << >>]
\* what the history keeps of an exchange that is over
Settled(g) == [NoGot EXCEPT !.payloads = g.payloads]

NoBack == [who |-> 0, value |-> "none"]
\* on: read() returns the bytes at the head of stream.bytes, as many as it is
\* asked for while there are that many, else what is left (VMIN = 0: nothing
\* when nothing is left); off: read() returns what the environment of the
\* specification draws.  noise, frame: what stream.bytes was made of;
\* answers: history, the calls of ReceiveAns_linux that have returned (0, 1,
\* more)
NoStream == [on |-> FALSE, bytes |-> << >>, noise |-> 0, frame |-> << >>,
             answers |-> 0]

Init ==
    /\ lock = 0
    \* no handle yet, or the handle of an earlier successful open
    /\ com_target \in {"NULL", "dev"}
    /\ fdOpen = (com_target = "dev")
    /\ pc = [t \in Callers |-> "idle"]
    /\ call = [t \in Callers |-> NoCall]
    /\ data = [t \in Callers |-> << >>]
    /\ retval = [t \in Callers |-> NoRet]
    /\ chunk_size = [t \in Callers |-> 0]
    /\ cptalc = [t \in Callers |-> 0]
    /\ mystruct = [t \in Callers |-> NoCmd]
    /\ mystrctAns = [t \in Callers |-> NoAns]
    /\ cpttimer = [t \in Callers |-> 0]
    /\ bufferrx = [t \in Callers |-> <<0, 0, 0>>]
    /\ site = [t \in Callers |-> "none"]
    /\ sendres = [t \in Callers |-> NoSend]
    /\ sent = [t \in Callers |-> << >>]
    /\ got = [t \in Callers |-> NoGot]
    /\ mon = [exch |-> 0, burst |-> 0, split |-> FALSE, bsplit |-> FALSE,
              back |-> NoBack]
    /\ stream = NoStream

(***************************************************************************)
(* Arguments the callers pass.                                             *)
(***************************************************************************)
\* register address, register value, fill of a buffer to be read into
Addr == 160
RegValue == 171
Untouched == 238
\* the buffer handed to a write burst: 0x10, 0x11, ...
TxBuffer(size) == [i \in 1..size |-> U8(15 + i)]
RxBuffer(size) == [i \in 1..size |-> Untouched]

IsBurst(op) == op \in {"wb", "rb"}

(***************************************************************************)
(* History of the wire: exch is the caller whose exchange (request write   *)
(* up to the end of its answer read) is under way, burst the caller whose  *)
(* multi-chunk burst is under way; split / bsplit record that some other   *)
(* caller wrote or read in between; back is the caller that returned last  *)
(* from an operation that took the lock, and what it returned, until the   *)
(* lock is taken again.                                                    *)
(***************************************************************************)
Touch(m, t) == [m EXCEPT !.split = @ \/ (m.exch \notin {0, t}),
                         !.bsplit = @ \/ (m.burst \notin {0, t})]
WireWrite(m, t, cmd) ==
    [Touch(m, t) EXCEPT !.exch = t,
                        !.burst = IF cmd \in {CMD_x, CMD_s} THEN t ELSE @]
ExchangeEnd(m, t) == [m EXCEPT !.exch = IF @ = t THEN 0 ELSE @]
BurstEnd(m, t) == [m EXCEPT !.burst = IF @ = t THEN 0 ELSE @]

(***************************************************************************)
(* pthread_mutex_unlock and the return of an operation.  An operation      *)
(* that has decided what to return stands at "ret"; Return is its last     *)
(* statements: pthread_mutex_unlock on the paths that call it, and the     *)
(* return, after which the callee's frame is gone.                         *)
(***************************************************************************)
pthread_mutex_unlock(l, t) == IF l = t THEN 0 ELSE l

\* return r at once, before any lock is taken (CHECK_NULL and the like):
\* the caller is back where it was
Reject(t, r) ==
    /\ r \in {LGW_COM_SUCCESS, LGW_COM_ERROR}
    /\ UNCHANGED <<lock, pc, call, data, retval, chunk_size, cptalc, mystruct,
                   mystrctAns, cpttimer, bufferrx, site, sendres, sent, got,
                   mon, stream>>

\* go on to pthread_mutex_lock with the locals as the entry code leaves them;
\* junk is what the uninitialised mystrctAns holds
Enter(t, c, buf, ms, st, junk) ==
    /\ call' = [call EXCEPT ![t] = c]
    /\ data' = [data EXCEPT ![t] = buf]
    /\ sent' = [sent EXCEPT ![t] = << >>]
    /\ got' = [got EXCEPT ![t] = NoGot]
    /\ chunk_size' = [chunk_size EXCEPT ![t] = U16(c.size)]
    /\ cptalc' = [cptalc EXCEPT ![t] = 0]
    /\ mystruct' = [mystruct EXCEPT ![t] = ms]
    /\ mystrctAns' = [mystrctAns EXCEPT ![t] =
                         [NoAns EXCEPT !.Rxbuf.junk = junk]]
    /\ site' = [site EXCEPT ![t] = st]
    /\ pc' = [pc EXCEPT ![t] = "lock"]
    /\ UNCHANGED <<lock, retval, cpttimer, bufferrx, sendres, mon, stream>>

Return(t) ==
    /\ pc[t] = "ret"
    /\ lock' = IF retval[t].unlock THEN pthread_mutex_unlock(lock, t) ELSE lock
    /\ pc' = [pc EXCEPT ![t] = "idle"]
    /\ retval' = [retval EXCEPT ![t] = NoRet]
    /\ call' = [call EXCEPT ![t] = NoCall]
    /\ data' = [data EXCEPT ![t] = << >>]
    /\ chunk_size' = [chunk_size EXCEPT ![t] = 0]
    /\ cptalc' = [cptalc EXCEPT ![t] = 0]
    /\ mystruct' = [mystruct EXCEPT ![t] = NoCmd]
    /\ mystrctAns' = [mystrctAns EXCEPT ![t] = NoAns]
    /\ site' = [site EXCEPT ![t] = "none"]
    /\ sent' = [sent EXCEPT ![t] = << >>]
    /\ got' = [got EXCEPT ![t] = NoGot]
    /\ mon' = [BurstEnd(mon, t) EXCEPT
                  !.back = [who |-> t, value |-> retval[t].value]]
    /\ UNCHANGED <<com_target, fdOpen, cpttimer, bufferrx, sendres, stream>>

(***************************************************************************)
(* lgw_com_open_linux up to pthread_mutex_lock.  The environment decides   *)
(* how the entry code ends: a null argument or a failed malloc ("null"),   *)
(* none of the candidate ports /dev/ttyACM0..9 opens ("nodev"), the first  *)
(* port that opens cannot be configured ("cfgfail"), or it can ("ok").     *)
(***************************************************************************)
FwBytes == <<U8(Shr8(Shr8(Shr8(STM32FWVERSION)))), U8(Shr8(Shr8(STM32FWVERSION))),
             U8(Shr8(STM32FWVERSION)), U8(STM32FWVERSION)>>

open_cmd == [Cmd |-> CMD_l, LenMsb |-> 0, Len |-> 4, Address |-> 0,
             Value |-> FwBytes]

lgw_com_open_linux(t, Junk) ==
    /\ pc[t] = "idle"
    /\ LET c == [NoCall EXCEPT !.op = "open", !.prior = com_target] IN
       \E entry \in {"null", "nodev", "cfgfail", "ok"}, junk \in Junk :
          IF entry \in {"null", "nodev"}
          THEN /\ Reject(t, LGW_COM_ERROR)
               /\ UNCHANGED <<com_target, fdOpen>>
          ELSE IF entry = "cfgfail"
          THEN \* the descriptor just opened is neither closed nor published:
               \* the handle and its endpoint are as before
               /\ Reject(t, LGW_COM_ERROR)
               /\ UNCHANGED <<com_target, fdOpen>>
          ELSE /\ Enter(t, c, << >>, open_cmd, "single", junk)
               /\ com_target' = "dev"
               /\ fdOpen' = TRUE

(***************************************************************************)
(* lgw_com_close_linux: no lock is taken.                                  *)
(***************************************************************************)
lgw_com_close_linux(t) ==
    /\ pc[t] = "idle"
    /\ IF com_target = "NULL"
       THEN /\ Reject(t, LGW_COM_ERROR)
            /\ UNCHANGED fdOpen
       ELSE \* close() fails on a descriptor that is not open
            /\ Reject(t, IF fdOpen THEN LGW_COM_SUCCESS ELSE LGW_COM_ERROR)
            /\ fdOpen' = FALSE
    /\ UNCHANGED com_target

(***************************************************************************)
(* lgw_com_w_linux, lgw_com_r_linux, lgw_com_wb_linux, lgw_com_rb_linux up *)
(* to pthread_mutex_lock.                                                  *)
(***************************************************************************)
lgw_com_w_linux(t, Junk) ==
    /\ pc[t] = "idle"
    /\ LET c == [NoCall EXCEPT !.op = "w", !.address = Addr, !.size = 1]
           ms == [Cmd |-> CMD_w, LenMsb |-> 0, Len |-> 1, Address |-> c.address,
                  Value |-> <<RegValue>>]
       IN  IF com_target = "NULL"
           THEN Reject(t, LGW_COM_ERROR)
           ELSE \E junk \in Junk : Enter(t, c, <<RegValue>>, ms, "single", junk)
    /\ UNCHANGED <<com_target, fdOpen>>

lgw_com_r_linux(t, Junk) ==
    /\ pc[t] = "idle"
    /\ \E nulldata \in BOOLEAN :
       LET c == [NoCall EXCEPT !.op = "r", !.address = Addr, !.size = 1]
           ms == [Cmd |-> CMD_r, LenMsb |-> 0, Len |-> 1, Address |-> c.address,
                  Value |-> <<0>>]
       IN  IF com_target = "NULL" \/ nulldata
           THEN Reject(t, LGW_COM_ERROR)
           ELSE \E junk \in Junk : Enter(t, c, RxBuffer(1), ms, "single", junk)
    /\ UNCHANGED <<com_target, fdOpen>>

lgw_com_wb_linux(t, Sizes, Junk) ==
    /\ pc[t] = "idle"
    /\ \E size \in Sizes, nulldata \in BOOLEAN :
       LET c == [NoCall EXCEPT !.op = "wb", !.address = Addr, !.size = size]
       IN  IF com_target = "NULL" \/ nulldata
           THEN Reject(t, LGW_COM_ERROR)
           ELSE \E junk \in Junk : Enter(t, c, TxBuffer(size), NoCmd, "loop", junk)
    /\ UNCHANGED <<com_target, fdOpen>>

lgw_com_rb_linux(t, Sizes, Junk) ==
    /\ pc[t] = "idle"
    /\ \E size \in Sizes, nulldata \in BOOLEAN :
       LET c == [NoCall EXCEPT !.op = "rb", !.address = Addr, !.size = size]
       IN  IF com_target = "NULL" \/ nulldata
           THEN Reject(t, LGW_COM_ERROR)
           ELSE \E junk \in Junk : Enter(t, c, RxBuffer(size), NoCmd, "loop", junk)
    /\ UNCHANGED <<com_target, fdOpen>>

(***************************************************************************)
(* pthread_mutex_lock(&mx_usbbridgesync): blocks while another caller      *)
(* holds the mutex.                                                        *)
(***************************************************************************)
\* a lock that does not wait for its holder
pthread_mutex_lock_nowait(t) ==
    /\ pc[t] = "lock"
    /\ lock' = t
    /\ pc' = [pc EXCEPT ![t] = IF IsBurst(call[t].op) THEN "chunk" ELSE "send"]
    /\ mon' = [mon EXCEPT !.back = NoBack]
    /\ UNCHANGED <<com_target, fdOpen, call, data, retval, chunk_size,
                   cptalc, mystruct, mystrctAns, cpttimer, bufferrx, site,
                   sendres, sent, got, stream>>

pthread_mutex_lock(t) ==
    /\ pc[t] = "lock"
    /\ lock = 0
    /\ lock' = t
    /\ pc' = [pc EXCEPT ![t] = IF IsBurst(call[t].op) THEN "chunk" ELSE "send"]
    /\ mon' = [mon EXCEPT !.back = NoBack]
    /\ UNCHANGED <<com_target, fdOpen, call, data, retval, chunk_size,
                   cptalc, mystruct, mystrctAns, cpttimer, bufferrx, site,
                   sendres, sent, got, stream>>

(***************************************************************************)
(* An operation reaches one of its "pthread_mutex_unlock; return r".       *)
(***************************************************************************)
\* a return path that forgets pthread_mutex_unlock when it reports an error
Leave_locked(t, r, m) ==
    /\ retval' = [retval EXCEPT ![t] =
                     [value |-> r, unlock |-> r # LGW_COM_ERROR]]
    /\ pc' = [pc EXCEPT ![t] = "ret"]
    /\ mon' = m
    /\ UNCHANGED lock

Leave(t, r, m) ==
    /\ retval' = [retval EXCEPT ![t] = [value |-> r, unlock |-> TRUE]]
    /\ pc' = [pc EXCEPT ![t] = "ret"]
    /\ mon' = m
    /\ UNCHANGED lock

BufAt(buf, i) == IF i \in 1..Len(buf) THEN buf[i] ELSE 0

(***************************************************************************)
(* The burst functions between pthread_mutex_lock and SendCmd_linux: the   *)
(* head of the while loop, the preparation of a first/middle chunk, the    *)
(* preparation of the atomic/end chunk, the return on a zero residue.      *)
(***************************************************************************)
\* every first/middle chunk carries the first ATOMICTX bytes of the buffer
wb_loop_cmd_first(size, chunk, off, buf, addr) ==
    [Cmd |-> IF chunk = size THEN CMD_x ELSE CMD_y,
     LenMsb |-> U8(Shr8(ATOMICTX)),
     Len |-> U8(ATOMICTX - Shl8(Shr8(ATOMICTX))),
     Address |-> addr,
     Value |-> [i \in 1..ATOMICTX |-> BufAt(buf, i)]]

wb_loop_cmd(size, chunk, off, buf, addr) ==
    [Cmd |-> IF chunk = size THEN CMD_x ELSE CMD_y,
     LenMsb |-> U8(Shr8(ATOMICTX)),
     Len |-> U8(ATOMICTX - Shl8(Shr8(ATOMICTX))),
     Address |-> addr,
     Value |-> [i \in 1..ATOMICTX |-> BufAt(buf, i + off)]]

\* the last chunk is always sent as an end chunk
wb_tail_cmd_end(size, chunk, off, buf, addr) ==
    LET msb == U8(Shr8(chunk))
        lsb == U8(chunk - Shl8(Shr8(chunk)))
    IN  [Cmd |-> CMD_z,
         LenMsb |-> msb,
         Len |-> lsb,
         Address |-> addr,
         Value |-> [i \in 1..(Shl8(msb) + lsb) |-> BufAt(buf, i + off)]]

wb_tail_cmd(size, chunk, off, buf, addr) ==
    LET msb == U8(Shr8(chunk))
        lsb == U8(chunk - Shl8(Shr8(chunk)))
    IN  [Cmd |-> IF size <= ATOMICTX THEN CMD_a ELSE CMD_z,
         LenMsb |-> msb,
         Len |-> lsb,
         Address |-> addr,
         Value |-> [i \in 1..(Shl8(msb) + lsb) |-> BufAt(buf, i + off)]]

rb_loop_cmd(size, chunk, addr) ==
    [Cmd |-> IF chunk = size THEN CMD_s ELSE CMD_t,
     LenMsb |-> 0,
     Len |-> 2,
     Address |-> addr,
     Value |-> <<U8(Shr8(ATOMICRX)), U8(ATOMICRX - Shl8(Shr8(ATOMICRX)))>>]

rb_tail_cmd(size, chunk, addr) ==
    [Cmd |-> IF size <= ATOMICRX THEN CMD_p ELSE CMD_u,
     LenMsb |-> 0,
     Len |-> 2,
     Address |-> addr,
     Value |-> <<U8(Shr8(chunk)), U8(chunk - Shl8(Shr8(chunk)))>>]

\* a loop that also takes the last full chunk
wb_more_ge(chunk) == chunk >= ATOMICTX

\* while (chunk_size > ATOMICTX) / while (chunk_size > ATOMICRX)
wb_more(chunk) == chunk > ATOMICTX
rb_more(chunk) == chunk > ATOMICRX
\* if (chunk_size > 0)
\* a burst that sends a last chunk even when no byte is left
has_residue_always(chunk) == chunk >= 0

has_residue(chunk) == chunk > 0

burst_chunk(t) ==
    /\ pc[t] = "chunk"
    /\ LET c == call[t]
           more == IF c.op = "wb" THEN wb_more(chunk_size[t])
                                  ELSE rb_more(chunk_size[t])
           loopcmd == IF c.op = "wb"
                      THEN wb_loop_cmd(c.size, chunk_size[t], cptalc[t],
                                       data[t], c.address)
                      ELSE rb_loop_cmd(c.size, chunk_size[t], c.address)
           tailcmd == IF c.op = "wb"
                      THEN wb_tail_cmd(c.size, chunk_size[t], cptalc[t],
                                       data[t], c.address)
                      ELSE rb_tail_cmd(c.size, chunk_size[t], c.address)
       IN  IF more
           THEN /\ mystruct' = [mystruct EXCEPT ![t] = loopcmd]
                /\ site' = [site EXCEPT ![t] = "loop"]
                /\ pc' = [pc EXCEPT ![t] = "send"]
                /\ UNCHANGED <<lock, retval, mon>>
           ELSE IF has_residue(chunk_size[t])
           THEN /\ mystruct' = [mystruct EXCEPT ![t] = tailcmd]
                /\ site' = [site EXCEPT ![t] = "tail"]
                /\ pc' = [pc EXCEPT ![t] = "send"]
                /\ UNCHANGED <<lock, retval, mon>>
           ELSE /\ Leave(t, LGW_COM_ERROR, mon)
                /\ site' = [site EXCEPT ![t] = "zero"]
                /\ UNCHANGED mystruct
    /\ UNCHANGED <<com_target, fdOpen, call, data, chunk_size, cptalc,
                   mystrctAns, cpttimer, bufferrx, sendres, sent, got, stream>>

(***************************************************************************)
(* SendCmd_linux: the frame is buffertx[0 .. Tlen-1]; write() returns -1,  *)
(* a short count or Tlen.  No caller looks at the result.                  *)
(***************************************************************************)
ValAt(ms, i) == IF i \in 1..Len(ms.Value) THEN ms.Value[i] ELSE 0

\* a length that forgets the high byte
Clen_low(ms) == U16(ms.Len)

Clen(ms) == U16(ms.Len + Shl8(ms.LenMsb))
Tlen(ms) == U16(CMD_HEADER_TX_SIZE + Clen(ms))

buffertx(ms) ==
    <<U8(ms.Cmd), ms.LenMsb, ms.Len, ms.Address>>
       \o [i \in 1..Clen(ms) |-> ValAt(ms, i)]

WriteResults(n) == IF fdOpen THEN {-1, n - 1, n} ELSE {-1}

SendCmd_result(lencheck) == IF lencheck < 0 THEN KO ELSE OK

SendCmd_linux(t) ==
    /\ pc[t] = "send"
    /\ LET ms == mystruct[t]
           frame == Take(buffertx(ms), Tlen(ms))
       IN  \E lencheck \in WriteResults(Tlen(ms)) :
              /\ sendres' = [sendres EXCEPT ![t] =
                                [called |-> TRUE, lencheck |-> lencheck]]
              /\ sent' = [sent EXCEPT ![t] = Append(@, frame)]
              /\ mon' = WireWrite(mon, t, ms.Cmd)
    /\ pc' = [pc EXCEPT ![t] = "sent"]
    /\ UNCHANGED <<lock, com_target, fdOpen, call, data, retval,
                   chunk_size, cptalc, mystruct, mystrctAns, cpttimer,
                   bufferrx, site, got, stream>>

(***************************************************************************)
(* SendCmd_linux has returned and its result is dropped; ReceiveAns_linux  *)
(* starts: memset(bufferrx, 0), cpttimer = 0, the first test of the loop.  *)
(***************************************************************************)
ReceiveAns_linux(t) ==
    /\ pc[t] = "sent"
    /\ sendres' = [sendres EXCEPT ![t] = NoSend]
    /\ bufferrx' = [bufferrx EXCEPT ![t] = <<0, 0, 0>>]
    /\ cpttimer' = [cpttimer EXCEPT ![t] = 0]
    /\ got' = [got EXCEPT ![t] = Settled(@)]
    /\ pc' = [pc EXCEPT ![t] = IF checkcmd_linux(0) # 0 THEN "hdr" ELSE "pay"]
    /\ UNCHANGED <<lock, com_target, fdOpen, call, data, retval, chunk_size,
                   cptalc, mystruct, mystrctAns, site, sent, mon, stream>>

(***************************************************************************)
(* What the operations do once ReceiveAns_linux has returned res, with     *)
(* ans the content of mystrctAns then.                                     *)
(***************************************************************************)
\* data[i + off] = Rxbuf[i] for i in 0 .. n-1
CopyIn(buf, off, arr, n) ==
    [i \in 1..Len(buf) |->
        IF i - off \in 1..n THEN ArrAt(arr, i - off - 1) ELSE buf[i]]

\* a handshake that wants the positive acknowledgement
fw_refused_unless_ok(ans) == ArrAt(ans.Rxbuf, 0) # ACK_OK

fw_refused(ans) == ArrAt(ans.Rxbuf, 0) = ACK_KO

\* the operation is about to return: only mystrctAns changed
Final(t, r, ans, m) ==
    /\ Leave(t, r, m)
    /\ mystrctAns' = [mystrctAns EXCEPT ![t] = ans]
    /\ UNCHANGED <<chunk_size, cptalc>>

after_open(t, res, ans, m) ==
    /\ IF res = OK
       THEN IF fw_refused(ans)
            THEN Final(t, LGW_COM_ERROR, ans, m)
            ELSE Final(t, LGW_COM_SUCCESS, ans, m)
       ELSE Final(t, LGW_COM_ERROR, ans, m)
    /\ UNCHANGED data

after_w(t, res, ans, m) ==
    /\ IF res = KO
       THEN Final(t, LGW_COM_ERROR, ans, m)
       ELSE Final(t, LGW_COM_SUCCESS, ans, m)
    /\ UNCHANGED data

after_r(t, res, ans, m) ==
    IF res = KO
    THEN /\ Final(t, LGW_COM_ERROR, ans, m)
         /\ UNCHANGED data
    ELSE /\ Final(t, LGW_COM_SUCCESS, ans, m)
         /\ data' = [data EXCEPT ![t] = <<ArrAt(ans.Rxbuf, 0)>>]

\* a burst that gives the lock up after each chunk
NextChunk_unlocked(t, ans, m, step) ==
    /\ chunk_size' = [chunk_size EXCEPT ![t] = U16(@ - step)]
    /\ cptalc' = [cptalc EXCEPT ![t] = @ + step]
    /\ mystrctAns' = [mystrctAns EXCEPT ![t] = ans]
    /\ pc' = [pc EXCEPT ![t] = "chunk"]
    /\ mon' = m
    /\ lock' = pthread_mutex_unlock(lock, t)
    /\ UNCHANGED retval

\* back to the head of the while loop
NextChunk(t, ans, m, step) ==
    /\ chunk_size' = [chunk_size EXCEPT ![t] = U16(@ - step)]
    /\ cptalc' = [cptalc EXCEPT ![t] = @ + step]
    /\ mystrctAns' = [mystrctAns EXCEPT ![t] = ans]
    /\ pc' = [pc EXCEPT ![t] = "chunk"]
    /\ mon' = m
    /\ UNCHANGED <<lock, retval>>

\* a write burst that goes on to its next chunk when an answer failed
after_wb_goes_on(t, res, ans, m) ==
    /\ IF site[t] = "loop"
       THEN NextChunk(t, mystrctAns[t], m, ATOMICTX)
       ELSE Final(t, IF res = KO THEN LGW_COM_ERROR ELSE LGW_COM_SUCCESS,
                  ans, m)
    /\ UNCHANGED data

\* lgw_com_wb_linux never reads mystrctAns: it is not carried from chunk to
\* chunk
after_wb(t, res, ans, m) ==
    /\ IF res = KO
       THEN Final(t, LGW_COM_ERROR, ans, m)
       ELSE IF site[t] = "loop"
            THEN NextChunk(t, mystrctAns[t], m, ATOMICTX)
            ELSE Final(t, LGW_COM_SUCCESS, ans, m)
    /\ UNCHANGED data

rb_copy_count(st, chunk) == IF st = "loop" THEN ATOMICRX ELSE chunk

after_rb(t, res, ans, m) ==
    IF res = OK
    THEN /\ data' = [data EXCEPT ![t] =
                        CopyIn(@, cptalc[t], ans.Rxbuf,
                               rb_copy_count(site[t], chunk_size[t]))]
         /\ IF site[t] = "loop"
            THEN NextChunk(t, ans, m, ATOMICRX)
            ELSE Final(t, LGW_COM_SUCCESS, ans, m)
    ELSE /\ Final(t, LGW_COM_ERROR, ans, m)
         /\ UNCHANGED data

\* assigns lock, pc, retval, data, chunk_size, cptalc, mystrctAns, mon
Continue(t, res, ans, m) ==
    CASE call[t].op = "open" -> after_open(t, res, ans, m)
      [] call[t].op = "w" -> after_w(t, res, ans, m)
      [] call[t].op = "r" -> after_r(t, res, ans, m)
      [] call[t].op = "wb" -> after_wb(t, res, ans, m)
      [] call[t].op = "rb" -> after_rb(t, res, ans, m)

\* ReceiveAns_linux returns: its locals are gone
ReceiveAns_return(t) ==
    /\ cpttimer' = [cpttimer EXCEPT ![t] = 0]
    /\ bufferrx' = [bufferrx EXCEPT ![t] = <<0, 0, 0>>]

(***************************************************************************)
(* ReceiveAns_linux, one pass of the header loop: read() of                *)
(* CMD_HEADER_RX_SIZE bytes.  The environment returns -1, 0, the first one *)
(* or two bytes of a header, or three bytes: a first byte out of Firsts or *)
(* the echo of the request's command letter, and a declared length out of  *)
(* Lens or the                                                             *)
(* length the request calls for (a first byte that is no command letter    *)
(* comes with two zero bytes).                                             *)
(***************************************************************************)
ExpectedLen(ms) ==
    IF ms.Cmd \in {CMD_s, CMD_t, CMD_u, CMD_p}
    THEN Shl8(ValAt(ms, 1)) + ValAt(ms, 2)
    ELSE 1

\* what the stream is after a read() that took n bytes of it; over: the
\* call of ReceiveAns_linux returns
StreamAfter(st, n, over) ==
    IF st.on
    THEN [st EXCEPT !.bytes = Drop(@, n),
                    !.answers = IF over THEN Min(@ + 1, 2) ELSE @]
    ELSE st

HeaderReads(t, Firsts, Lens) ==
    IF ~fdOpen
    THEN {[lencheck |-> -1, bytes |-> << >>]}
    ELSE IF stream.on
    THEN LET b == Take(stream.bytes, CMD_HEADER_RX_SIZE)
         IN  {[lencheck |-> Len(b), bytes |-> b]}
    ELSE {[lencheck |-> k, bytes |-> << >>] : k \in {-1, 0}}
         \cup {[lencheck |-> k, bytes |-> Take(<<b, 0, 0>>, k)] :
                 k \in 1..(CMD_HEADER_RX_SIZE - 1),
                 b \in Firsts \cup {mystruct[t].Cmd}}
         \cup {[lencheck |-> CMD_HEADER_RX_SIZE,
                bytes |-> <<h[1], U8(Shr8(h[2])), U8(h[2])>>] :
                 h \in ((Firsts \cup {mystruct[t].Cmd}) \cap ValidCmds)
                          \X (Lens \cup {ExpectedLen(mystruct[t])})}
         \cup {[lencheck |-> CMD_HEADER_RX_SIZE, bytes |-> <<b, 0, 0>>] :
                 b \in Firsts \ ValidCmds}

\* a reader that gives up once the counter is at the limit
header_giveup_at_limit(cnt) == cnt >= HEADER_RETRY_LIMIT

\* if (cpttimer > 15)
header_giveup(cnt) == cnt > HEADER_RETRY_LIMIT

\* a reader that takes a partial header for one more read to retry
header_partial_never(lencheck) == FALSE

\* (lencheck > 0) && (lencheck < CMD_HEADER_RX_SIZE)
header_partial(lencheck) == lencheck > 0 /\ lencheck < CMD_HEADER_RX_SIZE

ReceiveAns_header(t, Firsts, Lens) ==
    /\ pc[t] = "hdr"
    /\ \E rd \in HeaderReads(t, Firsts, Lens) :
       LET \* read() stores the bytes it got at the start of bufferrx
           buf == rd.bytes \o Drop(bufferrx[t], Len(rd.bytes))
           cnt == cpttimer[t] + 1
           m == Touch(mon, t)
           g == [got[t] EXCEPT !.hreads = @ + 1,
                               !.last.partial =
                                  rd.lencheck \in 1..(CMD_HEADER_RX_SIZE - 1)]
           gfail == [g EXCEPT !.last.first = buf[1]]
       IN  IF header_partial(rd.lencheck) \/ header_giveup(cnt)
           THEN /\ got' = [got EXCEPT ![t] = gfail]
                /\ stream' = StreamAfter(stream, Len(rd.bytes), TRUE)
                /\ ReceiveAns_return(t)
                /\ Continue(t, KO, mystrctAns[t], ExchangeEnd(m, t))
           ELSE /\ bufferrx' = [bufferrx EXCEPT ![t] = buf]
                /\ cpttimer' = [cpttimer EXCEPT ![t] = cnt]
                /\ mon' = m
                /\ stream' = StreamAfter(stream, Len(rd.bytes), FALSE)
                /\ IF checkcmd_linux(buf[1]) # 0
                   THEN /\ pc' = pc
                        /\ got' = [got EXCEPT ![t] = g]
                   ELSE /\ pc' = [pc EXCEPT ![t] = "pay"]
                        /\ got' = [got EXCEPT ![t] = [g EXCEPT !.hdr = buf]]
                /\ UNCHANGED <<lock, data, retval, chunk_size, cptalc,
                               mystrctAns>>
    /\ UNCHANGED <<com_target, fdOpen, call, mystruct, site, sendres, sent>>

(***************************************************************************)
(* ReceiveAns_linux after the loop: the payload read and the copy into     *)
(* *Ansbuffer.  The environment returns -1, one byte less than asked for,  *)
(* or all of it; the bytes are fill, fill+1, ...  A read of more bytes     *)
(* than bufferrx has room for is undefined behaviour: the program either   *)
(* goes on as if the bytes had been stored in a buffer that holds them, or *)
(* is stopped where it is.                                                 *)
(***************************************************************************)
\* a reader that never asks for the padding byte
payload_read_size_nopad(cmd_size) == cmd_size

payload_read_size(cmd_size) ==
    IF (cmd_size + CMD_HEADER_RX_SIZE) % USB_PACKET_SIZE = 0
    THEN cmd_size + 1
    ELSE cmd_size

PayloadReads(buf_size) == IF fdOpen THEN {-1, buf_size - 1, buf_size} ELSE {-1}

\* what read() returns and the bytes it stored behind the header
PayloadData(buf_size, Fills) ==
    IF fdOpen /\ stream.on
    THEN LET b == Take(stream.bytes, buf_size)
         IN  {[lencheck |-> Len(b), bytes |-> b]}
    ELSE {[lencheck |-> k,
           bytes |-> [j \in 1..(IF k < 0 THEN 0 ELSE k) |-> U8(fill + j - 1)]] :
             k \in PayloadReads(buf_size), fill \in Fills}

\* if (lencheck < buf_size)
payload_short(lencheck, buf_size) == lencheck < buf_size

\* read() is asked to store more bytes behind the header than
\* uint8_t bufferrx[CMD_HEADER_RX_SIZE + CMD_DATA_RX_SIZE] has room for
bufferrx_overflow(buf_size) == buf_size > CMD_DATA_RX_SIZE

payload_outcomes(buf_size) ==
    IF bufferrx_overflow(buf_size) THEN {"goes on", "killed"} ELSE {"goes on"}

\* the process is stopped in ReceiveAns_linux (a checked read(), the stack
\* protector, a fault): the caller goes no further and keeps what it holds
Killed(t, m) ==
    /\ pc' = [pc EXCEPT ![t] = "killed"]
    /\ mon' = m
    /\ UNCHANGED <<lock, retval, data, chunk_size, cptalc, mystrctAns>>

\* the bytes copied to Ansbuffer->Rxbuf out of the bytes read
answer_payload(hdr, bytes) == Take(bytes, Shl8(hdr[2]) + hdr[3])

ReceiveAns_payload(t, Fills) ==
    /\ pc[t] = "pay"
    /\ LET hdr == bufferrx[t]
           cmd_size == Shl8(hdr[2]) + hdr[3]
           buf_size == payload_read_size(cmd_size)
           m == ExchangeEnd(Touch(mon, t), t)
       IN  \E rd \in PayloadData(buf_size, Fills),
              outcome \in payload_outcomes(buf_size) :
           LET lencheck == rd.lencheck
               bytes == rd.bytes
               g == [Settled(got[t]) EXCEPT !.hdr = hdr, !.want = buf_size,
                                            !.lencheck = lencheck,
                                            !.read = bytes]
               ans == [Cmd |-> hdr[1], LenMsb |-> hdr[2], Len |-> hdr[3],
                       Rxbuf |-> ArrStore(mystrctAns[t].Rxbuf,
                                          answer_payload(hdr, bytes))]
           IN  /\ IF outcome = "killed"
                  THEN /\ got' = [got EXCEPT ![t] = g]
                       /\ Killed(t, m)
                  ELSE IF payload_short(lencheck, buf_size)
                  THEN /\ got' = [got EXCEPT ![t] = g]
                       /\ Continue(t, KO, mystrctAns[t], m)
                  ELSE /\ LET g2 == [g EXCEPT !.payloads =
                                                IF call[t].op = "rb"
                                                THEN Append(@, Take(bytes, cmd_size))
                                                ELSE @]
                          IN  got' = [got EXCEPT ![t] =
                                         IF IsBurst(call[t].op) /\ site[t] = "loop"
                                         THEN Settled(g2) ELSE g2]
                       /\ Continue(t, OK, ans, m)
               /\ stream' = StreamAfter(stream, Len(rd.bytes), TRUE)
    /\ ReceiveAns_return(t)
    /\ UNCHANGED <<com_target, fdOpen, call, mystruct, site, sendres, sent>>

(***************************************************************************)
(* The callers run concurrently.  The environment of this specification:   *)
(* bursts of no byte and of three chunks, header reads that fail, return   *)
(* nothing, part of a header, noise, or a header declaring no byte or the  *)
(* requested number, payloads starting with ACK_KO or ACK_OK.              *)
(***************************************************************************)
Sizes == {0, 2 * ATOMICTX + 1}
Junk == {85}
Firsts == {0}
Lens == {0}
Fills == {ACK_KO, ACK_OK}

Next ==
    \E t \in Callers :
       \/ lgw_com_open_linux(t, Junk)
       \/ lgw_com_close_linux(t)
       \/ lgw_com_w_linux(t, Junk)
       \/ lgw_com_r_linux(t, Junk)
       \/ lgw_com_wb_linux(t, Sizes, Junk)
       \/ lgw_com_rb_linux(t, Sizes, Junk)
       \/ pthread_mutex_lock(t)
       \/ burst_chunk(t)
       \/ SendCmd_linux(t)
       \/ ReceiveAns_linux(t)
       \/ ReceiveAns_header(t, Firsts, Lens)
       \/ ReceiveAns_payload(t, Fills)
       \/ Return(t)

Spec == Init /\ [][Next]_vars

(***************************************************************************)
(* Properties of the concurrent callers (Spec).                            *)
(***************************************************************************)
\* the positions at which a caller is about to write or read on the link,
\* or is between two wire actions of its operation
OnWire == {"chunk", "send", "sent", "hdr", "pay"}

\* C1: the wire trace is a serial concatenation of complete exchanges: from
\* a caller's request write to the end of its answer read (header reads and
\* payload read) no other caller writes or reads on the link, and at no time
\* are two callers inside an exchange.
C1_SerialExchanges ==
    /\ mon.split = FALSE
    /\ \A t, u \in Callers :
          (t # u /\ pc[t] \in {"sent", "hdr", "pay"})
             => (pc[u] \notin {"sent", "hdr", "pay"} /\ mon.exch = t)

\* a write_register exchange is in its header reads while a read_burst of
\* another caller waits for the lock
C1_Witness ==
    \E t, u \in Callers :
       /\ t # u
       /\ call[t].op = "w" /\ pc[t] = "hdr" /\ got[t].hreads >= 1
       /\ mon.exch = t
       /\ call[u].op = "rb" /\ pc[u] = "lock"

\* C2: an operation holds the link lock at every write and read it does
\* (open's handshake, write_register, read_register, the bursts), and a
\* caller whose operation has returned, with success or with an error, does
\* not hold the lock.
C2_LockHeldAndReleased ==
    \A t \in Callers :
       /\ pc[t] \in OnWire => lock = t
       /\ pc[t] = "ret" => lock = t
       /\ pc[t] \in {"idle", "lock"} => lock # t
       /\ mon.back.who = t => (pc[t] \in {"idle", "lock"} /\ lock = 0)

\* an operation that took the lock has just returned an error, and the lock
\* is free
C2_Witness ==
    \E t \in Callers :
       /\ mon.back = [who |-> t, value |-> LGW_COM_ERROR]
       /\ pc[t] = "idle"
       /\ lock = 0

\* C3: a burst holds the link lock from before its first chunk request
\* ('x' or 's') until it returns, completed or aborted: meanwhile no other
\* caller writes or reads on the link, and every other caller is outside
\* any operation or blocked at the lock.
C3_BurstHoldsLock ==
    /\ mon.bsplit = FALSE
    /\ \A t \in Callers :
          (IsBurst(call[t].op) /\ pc[t] \in OnWire \cup {"ret"})
             => /\ lock = t
                /\ \A u \in Callers \ {t} : pc[u] \in {"idle", "lock"}
    /\ \A t \in Callers :
          mon.burst = t => (IsBurst(call[t].op) /\ Len(sent[t]) >= 1
                            /\ sent[t][1][1] \in {CMD_x, CMD_s})

\* the third chunk ('z') of a write burst is being answered while another
\* caller's read burst waits for the lock
C3_Witness ==
    \E t, u \in Callers :
       /\ t # u
       /\ call[t].op = "wb" /\ mon.burst = t
       /\ Len(sent[t]) = 3 /\ sent[t][3][1] = CMD_z /\ pc[t] = "hdr"
       /\ call[u].op = "rb" /\ pc[u] = "lock"

(***************************************************************************)
(* One caller running bursts.  The environment of this specification:      *)
(* every size from zero to three full chunks and one byte, answers that    *)
(* declare the requested length or none, stack garbage 0 or 0x55.          *)
(***************************************************************************)
Solo == {1}
BurstSizes == 0..(3 * ATOMICTX + 1)
BurstJunk == {0, 85}
BurstFirsts == {0}
BurstLens == {0}
BurstFills == {17, 200}

NextBurst ==
    \E t \in Solo :
       \/ lgw_com_wb_linux(t, BurstSizes, BurstJunk)
       \/ lgw_com_rb_linux(t, BurstSizes, BurstJunk)
       \/ pthread_mutex_lock(t)
       \/ burst_chunk(t)
       \/ SendCmd_linux(t)
       \/ ReceiveAns_linux(t)
       \/ ReceiveAns_header(t, BurstFirsts, BurstLens)
       \/ ReceiveAns_payload(t, BurstFills)
       \/ Return(t)

SpecBurst == Init /\ [][NextBurst]_vars

(***************************************************************************)
(* Properties of the bursts (SpecBurst).                                   *)
(***************************************************************************)
CeilDiv(a, b) == (a + b - 1) \div b
IsPrefix(a, b) == Len(a) <= Len(b) /\ a = [i \in 1..Len(a) |-> b[i]]
\* bytes from + 1 .. from + n of buf
Slice(buf, from, n) == [i \in 1..n |-> buf[from + i]]
\* a request on the wire: opcode, 16-bit length, address, payload
Frame(op, n, addr, payload) == <<op, n \div 256, n % 256, addr>> \o payload
Payloads(frames) == [i \in 1..Len(frames) |-> Drop(frames[i], 4)]
Opcodes(frames) == [i \in 1..Len(frames) |-> frames[i][1]]
AtReturn(t, op) == pc[t] = "ret" /\ call[t].op = op
Succeeded(t) == retval[t].value = LGW_COM_SUCCESS
\* the exchange the operation did last failed: a header read it gave up on,
\* or a payload read that returned less than asked for
ExchangeFailed(g) ==
    \/ g.hreads > 0
    \/ g.hdr # << >> /\ g.lencheck < g.want

\* the requests of a write burst of S > ATOMICTX bytes: 'x', then
\* ceil((S - ATOMICTX) / ATOMICTX) - 1 times 'y', then 'z'
WbChunks(S) ==
    LET ny == CeilDiv(S - ATOMICTX, ATOMICTX) - 1
        n == 1 + ny + 1
    IN  [i \in 1..n |->
           LET len == IF i < n THEN ATOMICTX ELSE S - (n - 1) * ATOMICTX
               op == IF i = 1 THEN CMD_x ELSE IF i = n THEN CMD_z ELSE CMD_y
           IN  Frame(op, len, Addr, Slice(TxBuffer(S), (i - 1) * ATOMICTX, len))]

\* C4: a write burst of S > ATOMICTX bytes whose chunks are all answered
\* emits one 'x', then ceil((S - ATOMICTX)/ATOMICTX) - 1 'y', then one 'z';
\* every 'x'/'y' carries ATOMICTX payload bytes, and the payloads in order
\* are the caller's buffer bytes 0 .. S-1.  While the burst runs, and when
\* it is aborted, what it has emitted is a prefix of that sequence, and it
\* returns an error only after an exchange that failed.
C4_WriteBurstChunks ==
    \A t \in Callers :
       (call[t].op = "wb" /\ call[t].size > ATOMICTX) =>
          LET S == call[t].size
              ny == CeilDiv(S - ATOMICTX, ATOMICTX) - 1
          IN  /\ IsPrefix(sent[t], WbChunks(S))
              /\ (pc[t] = "ret" /\ ~Succeeded(t)) => ExchangeFailed(got[t])
              /\ (pc[t] = "ret" /\ Succeeded(t)) =>
                    /\ Opcodes(sent[t]) =
                          <<CMD_x>> \o [i \in 1..ny |-> CMD_y] \o <<CMD_z>>
                    /\ \A i \in 1..(Len(sent[t]) - 1) :
                          /\ Len(sent[t][i]) = CMD_HEADER_TX_SIZE + ATOMICTX
                          /\ Shl8(sent[t][i][2]) + sent[t][i][3] = ATOMICTX
                    /\ Flatten(Payloads(sent[t])) = data[t]
                    /\ data[t] = TxBuffer(S)

\* a write burst of 2 * ATOMICTX + 1 bytes returns success after 'x', 'y', 'z'
C4_Witness ==
    \E t \in Callers :
       /\ AtReturn(t, "wb") /\ Succeeded(t)
       /\ call[t].size = 2 * ATOMICTX + 1
       /\ Opcodes(sent[t]) = <<CMD_x, CMD_y, CMD_z>>

\* the one request of a write burst of S <= ATOMICTX bytes
WbAtomic(S) == <<Frame(CMD_a, S, Addr, TxBuffer(S))>>

\* C5 as stated: for all sizes S <= ATOMICTX, a write burst emits exactly
\* one request, with opcode 'a', declared length S and the S buffer bytes
\* (and so no 'x', 'y' or 'z').
C5_AllSmallSizes ==
    \A t \in Callers :
       (AtReturn(t, "wb") /\ call[t].size <= ATOMICTX) =>
          sent[t] = WbAtomic(call[t].size)

\* C5, amended: for all sizes 0 < S <= ATOMICTX, a write burst emits exactly
\* one request, with opcode 'a', declared length S and the S buffer bytes,
\* and no 'x', 'y' or 'z'; for S = 0 it emits no request and returns an
\* error.
C5_AtomicWriteBurst ==
    \A t \in Callers :
       /\ (call[t].op = "wb" /\ call[t].size \in 1..ATOMICTX) =>
             /\ IsPrefix(sent[t], WbAtomic(call[t].size))
             /\ pc[t] = "ret" => sent[t] = WbAtomic(call[t].size)
       /\ (call[t].op = "wb" /\ call[t].size = 0) =>
             /\ sent[t] = << >>
             /\ pc[t] = "ret" => ~Succeeded(t)

\* a write burst of exactly ATOMICTX bytes returns success after one 'a'
C5_Witness ==
    \E t \in Callers :
       /\ AtReturn(t, "wb") /\ Succeeded(t)
       /\ call[t].size = ATOMICTX
       /\ Opcodes(sent[t]) = <<CMD_a>>

\* the requests of a read burst of S > 0 bytes
RbRequests(S) ==
    LET n == CeilDiv(S, ATOMICRX)
    IN  [i \in 1..n |->
           LET len == IF i < n THEN ATOMICRX ELSE S - (n - 1) * ATOMICRX
               op == IF n = 1 THEN CMD_p
                     ELSE IF i = 1 THEN CMD_s
                     ELSE IF i = n THEN CMD_u ELSE CMD_t
           IN  Frame(op, 2, Addr, <<len \div 256, len % 256>>)]

\* C6 as stated: a read burst of 0 < S <= ATOMICRX bytes emits one 'p', one
\* of S > ATOMICRX bytes 's', then 't's, then one 'u'; every request has
\* length field 2 and carries the chunk length asked for as two big-endian
\* bytes, the lengths sum to S, and on success the caller's buffer is the
\* answer payloads in order.
C6_ReadBurst ==
    \A t \in Callers :
       (call[t].op = "rb" /\ call[t].size > 0) =>
          /\ IsPrefix(sent[t], RbRequests(call[t].size))
          /\ (pc[t] = "ret" /\ Succeeded(t)) =>
                /\ sent[t] = RbRequests(call[t].size)
                /\ data[t] = Flatten(got[t].payloads)

\* C10: a write burst whose size is a multiple of ATOMICTX above ATOMICTX
\* and whose chunks are all answered ends with a 'z' chunk of ATOMICTX
\* bytes and returns success; no write burst that began with 'x' returns
\* success, or returns because no data is left, without a 'z' emitted.
C10_MultipleEndsWithZ ==
    \A t \in Callers :
       AtReturn(t, "wb") =>
          LET S == call[t].size
              n == Len(sent[t])
          IN  /\ (S > ATOMICTX /\ S % ATOMICTX = 0) =>
                    /\ Succeeded(t) =>
                          /\ n = S \div ATOMICTX
                          /\ sent[t][n][1] = CMD_z
                          /\ Drop(sent[t][n], 4) =
                                Slice(TxBuffer(S), S - ATOMICTX, ATOMICTX)
                    /\ ~Succeeded(t) => ExchangeFailed(got[t])
              /\ (n >= 1 /\ sent[t][1][1] = CMD_x) =>
                    /\ Succeeded(t) => sent[t][n][1] = CMD_z
                    /\ site[t] # "zero"

\* a write burst of 2 * ATOMICTX bytes returns success after 'x' and 'z'
C10_Witness ==
    \E t \in Callers :
       /\ AtReturn(t, "wb") /\ Succeeded(t)
       /\ call[t].size = 2 * ATOMICTX
       /\ Opcodes(sent[t]) = <<CMD_x, CMD_z>>

(***************************************************************************)
(* One caller running open, write_register and read_register.  The         *)
(* environment of this specification: header reads that fail, return       *)
(* nothing, part of a header, noise (0x00, 0xFF), or a header that begins  *)
(* with the request's letter or with 'e' and declares 0, 61, 62, 125, 317  *)
(* or the expected number of bytes; payloads starting with ACK_KO, ACK_OK  *)
(* or 2; stack garbage ACK_KO or 0x55.                                     *)
(***************************************************************************)
RxJunk == {ACK_KO, 85}
RxFirsts == {0, 255, CMD_e}
RxLens == {0, 61, 62, 125, 317}
RxFills == {ACK_KO, ACK_OK, 2}

NextRx ==
    \E t \in Solo :
       \/ lgw_com_open_linux(t, RxJunk)
       \/ lgw_com_w_linux(t, RxJunk)
       \/ lgw_com_r_linux(t, RxJunk)
       \/ pthread_mutex_lock(t)
       \/ SendCmd_linux(t)
       \/ ReceiveAns_linux(t)
       \/ ReceiveAns_header(t, RxFirsts, RxLens)
       \/ ReceiveAns_payload(t, RxFills)
       \/ Return(t)

SpecRx == Init /\ [][NextRx]_vars

(***************************************************************************)
(* Properties of the answer reader and of open (SpecRx).                   *)
(***************************************************************************)
\* the operation returns because ReceiveAns_linux gave up on its retry
\* counter
HeaderTimeout(t) ==
    pc[t] = "ret" /\ got[t].hreads > 0 /\ ~got[t].last.partial

\* C7 as stated: the header reader never does more than 15 header reads in
\* an exchange, it gives up once 15 reads have brought no recognized header,
\* and a recognized header on any attempt within the cap is accepted.
C7_FifteenReads ==
    \A t \in Callers :
       /\ got[t].hreads <= HEADER_RETRY_LIMIT
       /\ HeaderTimeout(t) => got[t].hreads = HEADER_RETRY_LIMIT
       /\ pc[t] = "hdr" => checkcmd_linux(bufferrx[t][1]) # 0

\* C7, amended: the header reader does at most 16 header reads in an
\* exchange; a recognized header on any of the attempts 1 .. 15 is accepted;
\* after 15 reads without one it reads a 16th time and then gives up,
\* whatever that read brought; before that only a partial header ends the
\* exchange.
C7_SixteenReads ==
    \A t \in Callers :
       /\ got[t].hreads <= HEADER_RETRY_LIMIT + 1
       /\ HeaderTimeout(t) => got[t].hreads = HEADER_RETRY_LIMIT + 1
       /\ (pc[t] = "ret" /\ got[t].hreads \in 1..HEADER_RETRY_LIMIT)
             => got[t].last.partial
       /\ pc[t] = "hdr" => /\ checkcmd_linux(bufferrx[t][1]) # 0
                            /\ got[t].hreads <= HEADER_RETRY_LIMIT
       /\ pc[t] = "pay" => /\ got[t].hreads \in 1..HEADER_RETRY_LIMIT
                            /\ checkcmd_linux(got[t].hdr[1]) = 0

\* write_register fails on the retry counter after 16 header reads, the
\* 16th of which brought the header of its answer
C7_Witness ==
    \E t \in Callers :
       /\ AtReturn(t, "w") /\ ~Succeeded(t)
       /\ HeaderTimeout(t)
       /\ got[t].hreads = 16
       /\ got[t].last.first = CMD_w

\* the payload read of the operation's exchange has returned
PayloadRead(t) == pc[t] = "ret" /\ got[t].hdr # << >>

\* C8: for an accepted header declaring n bytes the payload read asks for n
\* bytes when (3 + n) mod 64 # 0 and for n + 1 when (3 + n) mod 64 = 0; when
\* it gets them, exactly the first n are the answer payload; when it gets
\* fewer, the exchange fails and nothing is delivered.
C8_PayloadRead ==
    \A t \in Callers :
       PayloadRead(t) =>
          LET g == got[t]
              n == 256 * g.hdr[2] + g.hdr[3]
              ans == mystrctAns[t]
          IN  /\ g.want = IF (3 + n) % 64 = 0 THEN n + 1 ELSE n
              /\ g.lencheck >= g.want =>
                    /\ Len(g.read) = g.want
                    /\ ans.Rxbuf.bytes = [i \in 1..n |-> g.read[i]]
                    /\ <<ans.Cmd, ans.LenMsb, ans.Len>> = g.hdr
                    /\ call[t].op \in {"w", "r"} => Succeeded(t)
                    /\ (call[t].op = "r" /\ n >= 1) => data[t] = <<g.read[1]>>
              /\ g.lencheck < g.want =>
                    /\ ~Succeeded(t)
                    /\ ans.Rxbuf.bytes = << >>

\* write_register succeeds on an answer declaring 61 bytes: 62 bytes are
\* consumed, 61 delivered
C8_Witness ==
    \E t \in Callers :
       /\ AtReturn(t, "w") /\ Succeeded(t)
       /\ got[t].hdr = <<CMD_w, 0, 61>>
       /\ Len(got[t].read) = 62
       /\ Len(mystrctAns[t].Rxbuf.bytes) = 61

\* the handshake answer has been received: header accepted, payload read in
\* full
AnswerReceived(t) ==
    got[t].hdr # << >> /\ got[t].lencheck >= got[t].want
DeclaredLen(t) == 256 * got[t].hdr[2] + got[t].hdr[3]

\* C9 as stated: open succeeds if and only if the handshake answer is
\* received and its payload[0] equals ACK_OK.
C9_SucceedsIffAckOk ==
    \A t \in Callers :
       AtReturn(t, "open") =>
          (Succeeded(t) <=> /\ AnswerReceived(t)
                            /\ DeclaredLen(t) >= 1
                            /\ got[t].read[1] = ACK_OK)

\* C9, amended: open succeeds if and only if the handshake answer is
\* received and the first byte of the answer buffer is not ACK_KO; that
\* byte is payload[0] when the answer has a payload, and an uninitialised
\* byte of the stack when the answer declares no payload.
C9_SucceedsUnlessAckKo ==
    \A t \in Callers :
       AtReturn(t, "open") =>
          (Succeeded(t) <=>
              /\ AnswerReceived(t)
              /\ IF DeclaredLen(t) >= 1
                 THEN got[t].read[1] # ACK_KO
                 ELSE mystrctAns[t].Rxbuf.junk # ACK_KO)

\* open succeeds on a handshake answer whose payload[0] is neither ACK_OK
\* nor ACK_KO
C9_Witness ==
    \E t \in Callers :
       /\ AtReturn(t, "open") /\ Succeeded(t)
       /\ AnswerReceived(t)
       /\ DeclaredLen(t) >= 1
       /\ got[t].read[1] \notin {ACK_OK, ACK_KO}

\* the wire opcodes of the protocol: r w s x t y u z p a  b f c d h i j q  l m n
WireOpcodes ==
    {CMD_r, CMD_w, CMD_s, CMD_x, CMD_t, CMD_y, CMD_u, CMD_z, CMD_p, CMD_a,
     98, 102, 99, 100, 104, 105, 106, 113, CMD_l, 109, 110}

\* C11: the header reader accepts a header only when its first byte is one
\* of the wire opcodes r w s x t y u z p a b f c d h i j q l m n; a 3-byte
\* read that begins with any other byte is never accepted as a header.
C11_OnlyWireOpcodes ==
    \A t \in Callers :
       got[t].hdr # << >> => got[t].hdr[1] \in WireOpcodes

\* write() failed or wrote less than the frame
WriteFailed(t) ==
    /\ pc[t] = "sent"
    /\ sendres[t].called
    /\ sendres[t].lencheck # Tlen(mystruct[t])

\* C12: when the write of a request fails or is short, the exchange is
\* aborted: the operation goes on to return an error and never enters the
\* header read; the header read is entered only after a full write.
C12_WriteErrorAborts ==
    [][\A t \in Callers :
          WriteFailed(t) =>
             /\ pc'[t] \in {"sent", "ret"}
             /\ pc'[t] = "ret" => retval'[t].value = LGW_COM_ERROR]_vars

\* C13: when open fails at the firmware handshake (payload[0] is ACK_KO, or
\* no answer is received), the endpoint it opened is closed again and the
\* caller's out parameter holds what it held before: no handle has been
\* published.
C13_FailedOpenTornDown ==
    \A t \in Callers :
       (AtReturn(t, "open") /\ ~Succeeded(t)) =>
          /\ ~fdOpen
          /\ com_target = call[t].prior

(***************************************************************************)
(* SendCmd_linux as a function of the record it is given.  A caller that   *)
(* holds the lock is about to send a record drawn from EncRecords (any of  *)
(* two letters, two addresses, payload lengths around the one-byte         *)
(* boundary of the length field); it then reads the answer and returns as  *)
(* lgw_com_w_linux does.                                                   *)
(***************************************************************************)
EncMaxLen == 300
EncLens == {0, 1, 2, 255, 256, EncMaxLen}
EncRecords ==
    {[Cmd |-> c, LenMsb |-> n \div 256, Len |-> n % 256, Address |-> a,
      Value |-> [i \in 1..n |-> U8(7 * i)]] :
        c \in {CMD_w, CMD_a}, a \in {0, 255}, n \in EncLens}
EncJunk == {85}
EncFirsts == {0}
EncLens_rx == {0}
EncFills == {ACK_OK}

InitEnc ==
    /\ lock = 1
    /\ com_target = "dev"
    /\ fdOpen = TRUE
    /\ pc = [t \in Callers |-> IF t = 1 THEN "send" ELSE "idle"]
    /\ \E rec \in EncRecords :
          /\ mystruct = [t \in Callers |-> IF t = 1 THEN rec ELSE NoCmd]
          /\ call = [t \in Callers |->
                        IF t = 1
                        THEN [NoCall EXCEPT !.op = "w",
                                            !.address = rec.Address,
                                            !.size = 1]
                        ELSE NoCall]
    /\ data = [t \in Callers |-> << >>]
    /\ retval = [t \in Callers |-> NoRet]
    /\ chunk_size = [t \in Callers |-> 0]
    /\ cptalc = [t \in Callers |-> 0]
    /\ \E junk \in EncJunk :
          mystrctAns = [t \in Callers |->
                          IF t = 1 THEN [NoAns EXCEPT !.Rxbuf.junk = junk]
                                   ELSE NoAns]
    /\ cpttimer = [t \in Callers |-> 0]
    /\ bufferrx = [t \in Callers |-> <<0, 0, 0>>]
    /\ site = [t \in Callers |-> IF t = 1 THEN "single" ELSE "none"]
    /\ sendres = [t \in Callers |-> NoSend]
    /\ sent = [t \in Callers |-> << >>]
    /\ got = [t \in Callers |-> NoGot]
    /\ mon = [exch |-> 0, burst |-> 0, split |-> FALSE, bsplit |-> FALSE,
              back |-> NoBack]
    /\ stream = NoStream

NextEnc ==
    \E t \in Solo :
       \/ SendCmd_linux(t)
       \/ ReceiveAns_linux(t)
       \/ ReceiveAns_header(t, EncFirsts, EncLens_rx)
       \/ ReceiveAns_payload(t, EncFills)
       \/ Return(t)

SpecEnc == InitEnc /\ [][NextEnc]_vars

\* parse a request frame by the layout [cmd][len_msb][len_lsb][addr][payload]
Decode(f) ==
    [Cmd |-> f[1], LenMsb |-> f[2], Len |-> f[3], Address |-> f[4],
     Value |-> [i \in 1..(256 * f[2] + f[3]) |-> f[4 + i]]]

\* C14: for a record declaring n payload bytes, the request handed to the
\* wire is exactly 4 + n bytes: cmd, len_msb, len_lsb, addr, then the n
\* payload bytes, with n = (len_msb << 8) | len_lsb; parsing those bytes by
\* the same layout gives the record back.
C14_FrameLayout ==
    \A t \in Callers :
       pc[t] = "sent" =>
          LET ms == mystruct[t]
              f == sent[t][Len(sent[t])]
              n == 256 * ms.LenMsb + ms.Len
          IN  /\ Len(f) = 4 + n
              /\ <<f[1], f[2], f[3], f[4]>> =
                    <<ms.Cmd, ms.LenMsb, ms.Len, ms.Address>>
              /\ \A i \in 1..n : f[4 + i] = ms.Value[i]
              /\ n = Len(ms.Value)
              /\ Decode(f) = ms

\* a record of EncMaxLen payload bytes (len_msb = 1) has been sent as a
\* frame of 4 + EncMaxLen bytes
C14_Witness ==
    \E t \in Callers :
       /\ pc[t] = "sent"
       /\ mystruct[t].LenMsb = 1
       /\ 256 * mystruct[t].LenMsb + mystruct[t].Len = EncMaxLen
       /\ Len(sent[t][1]) = 4 + EncMaxLen

\* C15: a header read that returns a positive count below the 3-byte header
\* size fails the exchange at once, whatever bytes it brought and whatever
\* the retry count: no header read and no payload read follows, and the
\* operation returns an error.
C15_PartialHeaderFails ==
    \A t \in Callers :
       got[t].last.partial =>
          /\ pc[t] = "ret"
          /\ ~Succeeded(t)
          /\ got[t].hreads \in 1..(HEADER_RETRY_LIMIT + 1)
          /\ got[t].hdr = << >>
          /\ got[t].want = 0 /\ got[t].read = << >>

\* read_register fails on its fifth header read, which brought one or two
\* bytes starting with the letter of its answer
C15_Witness ==
    \E t \in Callers :
       /\ AtReturn(t, "r") /\ ~Succeeded(t)
       /\ got[t].last = [partial |-> TRUE, first |-> CMD_r]
       /\ got[t].hreads = 5

(***************************************************************************)
(* ReceiveAns_linux on a fixed byte stream: a run of noise bytes, none of  *)
(* them a command letter, and behind it one complete answer frame.  All of *)
(* it is in the tty when the first read() is made.  Caller 1 reads and     *)
(* writes registers on an open handle.                                     *)
(***************************************************************************)
NoiseBytes == {0, 255}
\* runs of up to 15 whole headers of noise, and one byte more
NoiseLens == 0..(CMD_HEADER_RX_SIZE * HEADER_RETRY_LIMIT + 1)
StreamFrames == {<<CMD_r, 0, 1, 85>>, <<CMD_w, 0, 2, ACK_OK, 2>>}
StreamJunk == {0}

Streams ==
    {[on |-> TRUE, bytes |-> [j \in 1..k |-> b] \o f, noise |-> k,
      frame |-> f, answers |-> 0] :
        b \in NoiseBytes, k \in NoiseLens, f \in StreamFrames}

InitStream ==
    /\ lock = 0
    /\ com_target = "dev"
    /\ fdOpen = TRUE
    /\ pc = [t \in Callers |-> "idle"]
    /\ call = [t \in Callers |-> NoCall]
    /\ data = [t \in Callers |-> << >>]
    /\ retval = [t \in Callers |-> NoRet]
    /\ chunk_size = [t \in Callers |-> 0]
    /\ cptalc = [t \in Callers |-> 0]
    /\ mystruct = [t \in Callers |-> NoCmd]
    /\ mystrctAns = [t \in Callers |-> NoAns]
    /\ cpttimer = [t \in Callers |-> 0]
    /\ bufferrx = [t \in Callers |-> <<0, 0, 0>>]
    /\ site = [t \in Callers |-> "none"]
    /\ sendres = [t \in Callers |-> NoSend]
    /\ sent = [t \in Callers |-> << >>]
    /\ got = [t \in Callers |-> NoGot]
    /\ mon = [exch |-> 0, burst |-> 0, split |-> FALSE, bsplit |-> FALSE,
              back |-> NoBack]
    /\ stream \in Streams

\* the reads take their bytes from the stream: nothing is drawn
NextStream ==
    \E t \in Solo :
       \/ lgw_com_w_linux(t, StreamJunk)
       \/ lgw_com_r_linux(t, StreamJunk)
       \/ pthread_mutex_lock(t)
       \/ SendCmd_linux(t)
       \/ ReceiveAns_linux(t)
       \/ ReceiveAns_header(t, {}, {})
       \/ ReceiveAns_payload(t, {})
       \/ Return(t)

SpecStream == InitStream /\ [][NextStream]_vars

\* the operation is about to return after the first answer read from the
\* stream
FirstAnswer(t) == pc[t] = "ret" /\ stream.on /\ stream.answers = 1

\* the reader accepted the header of the frame and delivered its payload
Delivered(t) ==
    /\ got[t].hdr = Take(stream.frame, CMD_HEADER_RX_SIZE)
    /\ got[t].read = Drop(stream.frame, CMD_HEADER_RX_SIZE)
    /\ mystrctAns[t].Rxbuf.bytes = Drop(stream.frame, CMD_HEADER_RX_SIZE)
    /\ Succeeded(t)
    /\ call[t].op = "r" => data[t] = <<stream.frame[CMD_HEADER_RX_SIZE + 1]>>
    /\ stream.bytes = << >>

C17_CloseSerialized ==
    [][(fdOpen /\ ~fdOpen') =>
          \A u \in Callers : ~(lock = u /\ pc[u] \in OnWire)]_vars

\* the requests a write burst of S > 0 bytes emits when all are answered
WbRequests(S) == IF S > ATOMICTX THEN WbChunks(S) ELSE WbAtomic(S)

\* C18: a burst aborts on the first failing chunk.  A burst is at a further
\* chunk only after answers that did not fail; when the answer to a chunk
\* fails (header reads given up, or a short payload read) the operation
\* is about to return an error and to release the lock, that chunk's is the
\* last request emitted, and nothing is rolled back: the chunks sent before
\* it stay sent, and the bytes read_burst copied from their answers stay in
\* the caller's buffer, the rest of which is untouched.  Once the operation
\* has returned the caller does not hold the lock.
C18_BurstAborts ==
    \A t \in Callers :
       /\ mon.back.who = t => lock # t
       /\ IsBurst(call[t].op) =>
             LET W == IF call[t].op = "wb" THEN ATOMICTX ELSE ATOMICRX
                 before == Len(sent[t]) - 1
             IN  /\ pc[t] \in {"chunk", "send", "sent"} =>
                       ~ExchangeFailed(got[t])
                 /\ (pc[t] = "ret" /\ ExchangeFailed(got[t])) =>
                       /\ ~Succeeded(t) /\ retval[t].unlock
                       /\ before >= 0 /\ before * W < call[t].size
                       /\ cptalc[t] = before * W
                       /\ call[t].op = "wb" =>
                             IsPrefix(sent[t], WbRequests(call[t].size))
                       /\ call[t].op = "rb" =>
                             \A i \in 1..Len(data[t]) :
                                i <= cptalc[t] <=> data[t][i] # Untouched

\* a read burst of 2 * ATOMICRX + 1 bytes returns an error after its second
\* chunk failed: two requests are out, the bytes of the first answer are in
\* the buffer
C18_Witness ==
    \E t \in Callers :
       /\ AtReturn(t, "rb") /\ ~Succeeded(t)
       /\ call[t].size = 2 * ATOMICRX + 1
       /\ ExchangeFailed(got[t])
       /\ Len(sent[t]) = 2
       /\ cptalc[t] = ATOMICRX
       /\ data[t][1] # Untouched /\ data[t][ATOMICRX + 1] = Untouched

\* C19: write_burst and read_burst called with size 0 return an error
\* without an exchange: no request is handed to write(), no read is made,
\* the caller's buffer is as it was given, the operation goes from taking the
\* lock straight to the return that releases it, and once it has returned
\* the caller does not hold the lock.
C19_ZeroSizeBurst ==
    \A t \in Callers :
       /\ (IsBurst(call[t].op) /\ call[t].size = 0) =>
             /\ pc[t] \in {"lock", "chunk", "ret"}
             /\ sent[t] = << >>
             /\ got[t] = NoGot
             /\ data[t] = IF call[t].op = "wb" THEN TxBuffer(0) ELSE RxBuffer(0)
             /\ pc[t] = "ret" =>
                   /\ retval[t] = [value |-> LGW_COM_ERROR, unlock |-> TRUE]
                   /\ site[t] = "zero"
       /\ (mon.back.who = t /\ mon.back.value = LGW_COM_ERROR) => lock = 0

\* a read burst of no byte is about to return its error, the lock still held
C19_Witness ==
    \E t \in Callers :
       /\ AtReturn(t, "rb") /\ call[t].size = 0
       /\ ~Succeeded(t) /\ lock = t
       /\ sent[t] = << >> /\ got[t] = NoGot

(***************************************************************************)
(* ReceiveAns_linux on answers whose header declares a length at, just     *)
(* above, and far above the capacity of bufferrx.  Caller 1 reads and      *)
(* writes registers.                                                       *)
(***************************************************************************)
CapJunk == {0}
CapFirsts == {}
CapLens == {CMD_DATA_RX_SIZE - 3, CMD_DATA_RX_SIZE, CMD_DATA_RX_SIZE + 1,
            65535}
CapFills == {ACK_OK}

NextCap ==
    \E t \in Solo :
       \/ lgw_com_w_linux(t, CapJunk)
       \/ lgw_com_r_linux(t, CapJunk)
       \/ pthread_mutex_lock(t)
       \/ SendCmd_linux(t)
       \/ ReceiveAns_linux(t)
       \/ ReceiveAns_header(t, CapFirsts, CapLens)
       \/ ReceiveAns_payload(t, CapFills)
       \/ Return(t)

SpecCap == Init /\ [][NextCap]_vars

\* the payload read of the caller's exchange has been made
PayloadRequested(t) == pc[t] \in {"ret", "killed"} /\ got[t].hdr # << >>

\* C20: for every header the reader accepts, whatever 16-bit length it
\* declares, the number of payload bytes the reader asks read() to store in
\* bufferrx (the declared length, or one more with the pad) is at most the
\* payload capacity of the buffer, CMD_DATA_RX_SIZE.
C20_ReadWithinCapacity ==
    \A t \in Callers :
       PayloadRequested(t) => got[t].want <= CMD_DATA_RX_SIZE

(***************************************************************************)
(* Termination.  The callers run concurrently, as in Spec, under the       *)
(* scheduling the operations rely on: a caller inside an operation goes on *)
(* to its next step (every write() and read() returns, VMIN = 0 with a     *)
(* VTIME timeout), and a caller waiting in pthread_mutex_lock gets the     *)
(* lock if it is free again and again.  Nothing is assumed about when, or  *)
(* whether, a caller invokes an operation.  The stream delivers empty      *)
(* reads, failed reads, parts of headers, garbage, and headers declaring   *)
(* no byte, the requested number, or one byte more than bufferrx holds.    *)
(***************************************************************************)
LiveSizes == {0, 2 * ATOMICTX + 1}
LiveJunk == {85}
LiveFirsts == {0}
LiveLens == {0, CMD_DATA_RX_SIZE + 1}
LiveFills == {ACK_OK}

\* the steps of caller t inside an operation, the wait for the lock apart
Proceed(t, Hs, Ls, Ps) ==
    \/ burst_chunk(t)
    \/ SendCmd_linux(t)
    \/ ReceiveAns_linux(t)
    \/ ReceiveAns_header(t, Hs, Ls)
    \/ ReceiveAns_payload(t, Ps)
    \/ Return(t)

Fairness(Hs, Ls, Ps) ==
    \A t \in Callers :
       /\ WF_vars(Proceed(t, Hs, Ls, Ps))
       /\ SF_vars(pthread_mutex_lock(t))

NextLive ==
    \E t \in Callers :
       \/ lgw_com_open_linux(t, LiveJunk)
       \/ lgw_com_close_linux(t)
       \/ lgw_com_w_linux(t, LiveJunk)
       \/ lgw_com_r_linux(t, LiveJunk)
       \/ lgw_com_wb_linux(t, LiveSizes, LiveJunk)
       \/ lgw_com_rb_linux(t, LiveSizes, LiveJunk)
       \/ pthread_mutex_lock(t)
       \/ burst_chunk(t)
       \/ SendCmd_linux(t)
       \/ ReceiveAns_linux(t)
       \/ ReceiveAns_header(t, LiveFirsts, LiveLens)
       \/ ReceiveAns_payload(t, LiveFills)
       \/ Return(t)

SpecLive ==
    Init /\ [][NextLive]_vars /\ Fairness(LiveFirsts, LiveLens, LiveFills)

\* the same callers and scheduling as SpecLive, on a stream whose headers
\* declare no more than bufferrx holds
SpecFair == Init /\ [][Next]_vars /\ Fairness(Firsts, Lens, Fills)

\* caller t is inside an operation it has invoked
Invoked(t) == pc[t] # "idle"
\* the operation of caller t returns Success or Error
Returns(t) ==
    pc[t] = "ret" /\ retval[t].value \in {LGW_COM_SUCCESS, LGW_COM_ERROR}

====
